---- MODULE Spec2Model ----
(***************************************************************************)
(* Model of cmelab/CG-Tutorial, src/utils.py: the periodic-boundary repair *)
(* of CG_Compound (wrap, unwrap), the molecule indexer get_molecules, and  *)
(* the acceptance walk of coarse().                                        *)
(*                                                                         *)
(* Geometry.  The structures of the model are collinear: every particle    *)
(* sits on the x axis (y = z = 0), so numpy's Euclidean norm is the        *)
(* absolute value of a difference and every mean the code takes is a       *)
(* rational number.  Coordinates are integers (for the side-10 box of the  *)
(* two-atom scenario the unit is 0.1); means are kept exact as fractions   *)
(* <<numerator, denominator>> and compared by cross-multiplication, so a   *)
(* tie in the model is a tie of the real numbers the code approximates.    *)
(***************************************************************************)
EXTENDS Integers, Sequences, FiniteSets, TLC

VARIABLES
    \* ---- CG_Compound ----
    n,              \* number of particles, indexed 0..n-1
    pos,            \* particle index -> x coordinate
    bonds,          \* compound.bonds(): sequence of <<a, b>>
    box,            \* self.box: << >> is None, <<L>> the box length
    \* ---- the running unwrap frame ----
    pc,             \* "idle" or the step unwrap is about to take
    d_tolerance,    \* argument of unwrap
    count,          \* argument _count of unwrap
    molecules,      \* local molecules
    maybe_outliers, \* local maybe_outliers: the bad bonds of this pass
    outliers,       \* local outliers of find_outliers
    checked,        \* local checked of find_outliers
    starts,         \* local starts of find_outliers
    bond_i,         \* position of the loop over maybe_outliers (from 1)
    \* ---- what the caller observes ----
    result,         \* how the last call ended
    report,         \* the last message printed
    errTup,         \* the tuple named by the RuntimeError
    \* ---- history ----
    op,             \* the last operation called
    calls,          \* number of calls made on this compound
    passes,         \* number of passes of the running (or last) unwrap call
    pos0,           \* positions when the last call was made
    passPos,        \* positions when the running pass began
    prev            \* <<op, result, d_tolerance>> of the call before the last

VARIABLES
    \* ---- get_molecules(snapshot) ----
    gm_pc,          \* "new", "loaded", "loop", "group" or "done"
    gm_N,           \* snapshot.particles.N
    bond_array,     \* snapshot.bonds.group: sequence of rows <<a, b>>
    graph,          \* bond_graph: node -> set of neighbours
    graph_keys,     \* the keys of bond_graph in insertion order
    gm_i,           \* position of "for node in graph" (from 1)
    already_seen,   \* already_seen
    nodes,          \* local nodes of _get_connected_group
    group_acc,      \* local result of _get_connected_group
    gm_result       \* result: sequence of sets

VARIABLES
    \* ---- coarse(mol, bead_smarts) ----
    k_pc,           \* "new", "matching", "walking", "walked", "covered",
                    \* "built", "beaded", "bonded", "done", "AttributeError"
    bead_smarts,    \* the SMARTS strings, each a sequence of characters
    found,          \* smarts.findall(mol) of each string: 1-indexed tuples
    k_i,            \* position of the loop over bead_smarts (from 1)
    matches,        \* matches: sequence of [group, smarts, name]
    k_m,            \* position of the loop over matches (from 1)
    seen,           \* seen
    bead_inds,      \* bead_inds
    printed,        \* the SMARTS strings printed as "not found"
    mol_coords,     \* atom.coords of the atoms of mol, in Angstrom
    mol_bonds,      \* the bonds of mol.OBMol: <<begin, end>>, atoms from 1
    unitcell,       \* whether mol has a unit cell
    atomistic,      \* the atomistic argument
    warned,         \* the coverage warnings printed: [text, args], args the
                    \* values formatted into the text
    comp,           \* the particles of comp: sequence of [name, pos, smarts]
    comp_bonds,     \* the bond graph of comp: sets {p, q} of particle indices
    comp_N,         \* N, the number of particles before the beads
    bead_bonds,     \* bead_bonds of cg_bonds
    removed         \* whether remove_atomistic was called

VARIABLES
    \* ---- map_good_on_bad(good_mol, bad_mol) ----
    m_pc,           \* "new", "atoms", "bonds" or "returned"
    good_atoms,     \* atoms of good_mol.OBMol: [type, aromatic], GetAtom(1) first
    bad_atoms,      \* atoms of bad_mol.OBMol: [type, aromatic, pos]
    good_bonds,     \* bonds of good_mol.OBMol: [order, aromatic], GetBond(0) first
    bad_bonds,      \* bonds of bad_mol.OBMol
    bad_atoms0,     \* the atoms of bad_mol when the call was made
    m_i             \* i of the running loop

mvars == <<m_pc, good_atoms, bad_atoms, good_bonds, bad_bonds, bad_atoms0, m_i>>

gvars == <<gm_pc, gm_N, bond_array, graph, graph_keys, gm_i, already_seen,
           nodes, group_acc, gm_result>>

bvars == <<warned, comp, comp_bonds, comp_N, bead_bonds, removed>>

kvars == <<k_pc, bead_smarts, found, k_i, matches, k_m, seen, bead_inds,
           printed, mol_coords, mol_bonds, unitcell, atomistic, bvars>>

cvars == <<n, pos, bonds, box, pc, d_tolerance, count, molecules,
           maybe_outliers, outliers, checked, starts, bond_i, result, report,
           errTup, op, calls, passes, pos0, passPos, prev>>

\* ---------------------------------------------------------------------
\* Bounds and input sets
\* ---------------------------------------------------------------------
MaxCalls == 2

MaxNodes == 4
MaxRows == 3

MaxPatterns == 2
MaxAtoms == 3
MaxFound == 2

\* the fixed retry limit of unwrap
RetryLimit == 5

NoBox == << >>
Tolerances == {3, 12}

\* The structures explored: n particles, the bonds in the order
\* compound.bonds() yields them, the coordinates the particles are placed
\* on and the boxes tried.  Particles not named by a bond are free
\* particles.  The box side is 10, so 5 lies on the upper face of the
\* cell, -5 on the lower face and -7 outside the cell.
Few == {-7, -2, 5}
Small == {-7, -5, -2, 2, 5}
Large == {-5, -2, 2, 5}
Spread == {-4, 0, 5}
Structures ==
    { [n |-> 2, bonds |-> << <<0, 1>> >>,
       coords |-> Small, boxes |-> {NoBox, <<10>>}],
      [n |-> 3, bonds |-> << <<0, 1>> >>,
       coords |-> Few, boxes |-> {NoBox, <<10>>}],
      [n |-> 3, bonds |-> << <<0, 1>>, <<1, 2>> >>,
       coords |-> Few, boxes |-> {NoBox}],
      [n |-> 3, bonds |-> << <<0, 1>>, <<1, 2>> >>,
       coords |-> Small, boxes |-> {<<10>>}],
      [n |-> 4, bonds |-> << <<0, 1>>, <<2, 3>> >>,
       coords |-> Few, boxes |-> {<<10>>}],
      [n |-> 4, bonds |-> << <<0, 1>>, <<1, 2>>, <<2, 3>> >>,
       coords |-> Large, boxes |-> {<<10>>}],
      [n |-> 3, bonds |-> << <<0, 1>>, <<1, 2>>, <<2, 0>> >>,
       coords |-> Few, boxes |-> {<<10>>}] }

\* a chain of five particles in a box of side 10: particle 0, the pair
\* 1, 2 and the pair 3, 4, each placed on one coordinate of Spread
ChainBonds == << <<0, 1>>, <<1, 2>>, <<2, 3>>, <<3, 4>> >>
ChainPos ==
    { [i \in 0 .. 4 |-> IF i = 0 THEN a ELSE IF i <= 2 THEN b ELSE c] :
        a \in Spread, b \in Spread, c \in Spread }

\* the two-atom scenario: box side 10, A at 0.1, B at 9.9, in units of 0.1
ScenarioBox == <<100>>
ScenarioPos == <<1, 99>>
ScenarioTolerances == {2, 97}

\* ---------------------------------------------------------------------
\* Arithmetic helpers
\* ---------------------------------------------------------------------
Abs(x) == IF x < 0 THEN -x ELSE x

\* sum of f[i] over the indices i of S that are at most top
RECURSIVE SumUpTo(_, _, _)
SumUpTo(S, f, top) ==
    IF top < 0 THEN 0
    ELSE (IF top \in S THEN f[top] ELSE 0) + SumUpTo(S, f, top - 1)

\* sum of |k * f[i] - total| over the indices i of S that are at most top
RECURSIVE SumDevUpTo(_, _, _, _, _)
SumDevUpTo(S, f, k, total, top) ==
    IF top < 0 THEN 0
    ELSE (IF top \in S THEN Abs(k * f[top] - total) ELSE 0)
             + SumDevUpTo(S, f, k, total, top - 1)

\* np.sum over the rows S of the coordinate array f
SumOver(S, f) == SumUpTo(S, f, n - 1)

\* a comparison of fractions that always says "greater"
FracGT_always(a, b) == a[2] > 0 /\ b[2] > 0

\* fractions <<num, den>> with den > 0
FracGT(a, b) == a[1] * b[2] > b[1] * a[2]

\* np.linalg.norm(pos1 - pos2) for collinear points
distance(pos1, pos2) == Abs(pos1 - pos2)

Particles == 0 .. (n - 1)

\* ---------------------------------------------------------------------
\* CG_Compound.get_molecules, CG_Compound.bond_dict
\* ---------------------------------------------------------------------
Bonded(b, i, j) ==
    \E k \in DOMAIN b : b[k] = <<i, j>> \/ b[k] = <<j, i>>

\* bond_dict that records a bond at its first particle only
bond_dict_forward(b) ==
    [i \in Particles |-> {j \in Particles : \E k \in DOMAIN b : b[k] = <<i, j>>}]

\* bond_dict: particle index -> set of bonded indices (a defaultdict: a
\* particle without bonds maps to the empty set)
bond_dict(b) ==
    [i \in Particles |-> {j \in Particles : Bonded(b, i, j)}]

\* a path of bonds joins i and j whose inner particles have index < m
RECURSIVE Joined(_, _, _, _)
Joined(b, i, j, m) ==
    IF m = 0 THEN i = j \/ Bonded(b, i, j)
    ELSE \/ Joined(b, i, j, m - 1)
         \/ Joined(b, i, m - 1, m - 1) /\ Joined(b, m - 1, j, m - 1)

\* the connected components of the bond graph, as sets of particle
\* indices; only unwrap reads them, and only for bonded particles
connected_components(b) ==
    { {j \in Particles : Joined(b, i, j, n)} :
        i \in {j \in Particles : \E k \in Particles : Bonded(b, j, k)} }

\* ---------------------------------------------------------------------
\* CG_Compound.unwrap: check_bad_bonds
\* ---------------------------------------------------------------------
IsBad_ge(p, bond, tol) == distance(p[bond[1]], p[bond[2]]) >= tol

IsBad(p, bond, tol) == distance(p[bond[1]], p[bond[2]]) > tol

check_bad_bonds(p, b, tol) == SelectSeq(b, LAMBDA bond : IsBad(p, bond, tol))

\* ---------------------------------------------------------------------
\* CG_Compound.unwrap: find_outliers
\* ---------------------------------------------------------------------
MoleculeOf(mols, index) == CHOOSE m \in mols : index \in m

\* np.mean(v_distance(xyz[S], np.mean(xyz[S]))) as a fraction:
\* sum_j |x_j - Sum/k| / k  =  sum_j |k x_j - Sum| / k^2
avg_dist(p, S) ==
    LET k == Cardinality(S)
        total == SumOver(S, p)
    IN  << SumDevUpTo(S, p, k, total, n - 1), k * k >>

\* _is_outlier: removing the particle lowers the molecule's mean
\* particle-to-centre distance.  The mean over an empty set is nan, and
\* a comparison with nan is False.
is_outlier(p, mols, index) ==
    LET molecule == MoleculeOf(mols, index)
        test_molecule == molecule \ {index}
    IN  IF test_molecule = {} THEN FALSE
        ELSE FracGT(avg_dist(p, molecule), avg_dist(p, test_molecule))

\* _d_to_center: distance of the particle to its molecule's centre
d_to_center(p, mols, index) ==
    LET molecule == MoleculeOf(mols, index)
        k == Cardinality(molecule)
    IN  << Abs(k * p[index] - SumOver(molecule, p)), k >>

\* classify_bond with the tie resolved in favour of the first endpoint
classify_bond_first(p, mols, tup) ==
    IF is_outlier(p, mols, tup[1]) /\ is_outlier(p, mols, tup[2])
    THEN LET d_0 == d_to_center(p, mols, tup[1])
             d_1 == d_to_center(p, mols, tup[2])
         IN  IF FracGT(d_1, d_0) THEN <<"add", tup[2]>>
             ELSE <<"add", tup[1]>>
    ELSE IF is_outlier(p, mols, tup[1]) THEN <<"add", tup[1]>>
    ELSE IF is_outlier(p, mols, tup[2]) THEN <<"add", tup[2]>>
    ELSE <<"none">>

\* classify_bond with the tie resolved in favour of the second endpoint
classify_bond_second(p, mols, tup) ==
    IF is_outlier(p, mols, tup[1]) /\ is_outlier(p, mols, tup[2])
    THEN LET d_0 == d_to_center(p, mols, tup[1])
             d_1 == d_to_center(p, mols, tup[2])
         IN  IF FracGT(d_0, d_1) THEN <<"add", tup[1]>>
             ELSE <<"add", tup[2]>>
    ELSE IF is_outlier(p, mols, tup[1]) THEN <<"add", tup[1]>>
    ELSE IF is_outlier(p, mols, tup[2]) THEN <<"add", tup[2]>>
    ELSE <<"none">>

\* the verdict of the classification loop's body on one bad bond:
\* <<"add", index>>, <<"none">> or <<"raise">>
classify_bond(p, mols, tup) ==
    IF is_outlier(p, mols, tup[1]) /\ is_outlier(p, mols, tup[2])
    THEN LET d_0 == d_to_center(p, mols, tup[1])
             d_1 == d_to_center(p, mols, tup[2])
         IN  IF FracGT(d_0, d_1) THEN <<"add", tup[1]>>
             ELSE IF FracGT(d_1, d_0) THEN <<"add", tup[2]>>
             ELSE <<"raise">>
    ELSE IF is_outlier(p, mols, tup[1]) THEN <<"add", tup[1]>>
    ELSE IF is_outlier(p, mols, tup[2]) THEN <<"add", tup[2]>>
    ELSE <<"none">>

\* ---------------------------------------------------------------------
\* CG_Compound.unwrap: relocation
\* ---------------------------------------------------------------------
\* image_of with the two comparisons made weak
image_of_weak(p, anchor, index, L) ==
    IF anchor = {} THEN 0
    ELSE LET k == Cardinality(anchor)
             image == SumOver(anchor, p) - k * p[index]
         IN  (IF 2 * image >= k * L THEN 1 ELSE 0)
           + (IF 2 * image <= -(k * L) THEN -1 ELSE 0)

\* img = where(image > box/2, 1, 0) + where(image < -box/2, -1, 0) with
\* image = mol_avg - pos, scaled by the size k of the anchor group.  With
\* an empty anchor group mol_avg is nan and both comparisons are False.
image_of(p, anchor, index, L) ==
    IF anchor = {} THEN 0
    ELSE LET k == Cardinality(anchor)
             image == SumOver(anchor, p) - k * p[index]
         IN  (IF 2 * image > k * L THEN 1 ELSE 0)
           + (IF 2 * image < -(k * L) THEN -1 ELSE 0)

\* freud.box.Box.unwrap(pos, img)
freud_unwrap(x, img, L) == x + img * L

\* relocate that also shifts the anchor group of a molecule with outliers
relocate_with_anchor(p, mols, outs, L) ==
    [i \in Particles |->
        IF \E o \in outs : \E m \in mols : i \in m /\ o \in m
        THEN p[i] + L
        ELSE p[i]]

\* the positions after the loop over outlier_dict
relocate(p, mols, outs, L) ==
    [i \in Particles |->
        IF i \in outs
        THEN freud_unwrap(p[i],
                 image_of(p, MoleculeOf(mols, i) \ outs, i, L), L)
        ELSE p[i]]

\* may_retry off by one, and may_retry that never retries
may_retry_le(c) == c <= RetryLimit
may_retry_never(c) == c < 0

\* the retry test of the last block of unwrap
may_retry(c) == c < RetryLimit

\* ---------------------------------------------------------------------
\* CG_Compound.wrap
\* ---------------------------------------------------------------------
\* freud.box.Box.wrap: the image of x in [-L/2, L/2)
freud_wrap(x, L) == (((2 * x + L) % (2 * L)) - L) \div 2

\* the rows np.argwhere(abs(self.xyz) > self.box / 2) selects
out_of_box(x, L) == 2 * Abs(x) > L

wrap_positions(p, L) ==
    [i \in Particles |-> IF out_of_box(p[i], L) THEN freud_wrap(p[i], L) ELSE p[i]]

\* ---------------------------------------------------------------------
\* The compound: initial states and the operations on it
\* ---------------------------------------------------------------------
Idle == "idle"

\* CG_Compound(): no particles, no bonds, box None
InitCompound ==
    /\ n = 0
    /\ pos = << >>
    /\ bonds = << >>
    /\ box = NoBox
    /\ pc = "new"
    /\ d_tolerance = 0
    /\ count = 0
    /\ molecules = {}
    /\ maybe_outliers = << >>
    /\ outliers = {}
    /\ checked = {}
    /\ starts = {}
    /\ bond_i = 1
    /\ result = "none"
    /\ report = "none"
    /\ errTup = << >>
    /\ op = "none"
    /\ calls = 0
    /\ passes = 0
    /\ pos0 = << >>
    /\ passPos = << >>
    /\ prev = <<"none", "none", 0>>

\* nothing has been given to get_molecules
InitMolecules ==
    /\ gm_pc = "new"
    /\ gm_N = 0
    /\ bond_array = << >>
    /\ graph = << >>
    /\ graph_keys = << >>
    /\ gm_i = 1
    /\ already_seen = {}
    /\ nodes = {}
    /\ group_acc = {}
    /\ gm_result = << >>

\* nothing has been given to map_good_on_bad
InitMap ==
    /\ m_pc = "new"
    /\ good_atoms = << >>
    /\ bad_atoms = << >>
    /\ good_bonds = << >>
    /\ bad_bonds = << >>
    /\ bad_atoms0 = << >>
    /\ m_i = 1

\* nothing has been given to coarse
InitCoarse ==
    /\ k_pc = "new"
    /\ bead_smarts = << >>
    /\ found = << >>
    /\ k_i = 1
    /\ matches = << >>
    /\ k_m = 1
    /\ seen = {}
    /\ bead_inds = << >>
    /\ printed = {}
    /\ mol_coords = << >>
    /\ mol_bonds = << >>
    /\ unitcell = FALSE
    /\ atomistic = FALSE
    /\ warned = << >>
    /\ comp = << >>
    /\ comp_bonds = {}
    /\ comp_N = 0
    /\ bead_bonds = << >>
    /\ removed = FALSE

\* from_gsd: the particles, the bonds and (when the caller sets it) the
\* box of one frame are put into the new compound
Load ==
    /\ pc = "new"
    /\ \/ \E s \in Structures :
             /\ n' = s.n
             /\ bonds' = s.bonds
             /\ pos' \in [0 .. (s.n - 1) -> s.coords]
             /\ box' \in s.boxes
       \/ /\ n' = 2
          /\ bonds' = << <<0, 1>> >>
          /\ pos' = [i \in 0 .. 1 |-> ScenarioPos[i + 1]]
          /\ box' = ScenarioBox
       \/ /\ n' = 5
          /\ bonds' = ChainBonds
          /\ pos' \in ChainPos
          /\ box' = <<10>>
    /\ pc' = Idle
    /\ pos0' = pos'
    /\ passPos' = pos'
    /\ UNCHANGED <<d_tolerance, count, molecules, maybe_outliers, outliers,
                   checked, starts, bond_i, result, report, errTup, op,
                   calls, passes, prev>>
    /\ UNCHANGED <<gvars, kvars, mvars>>

TolerancesFor(b) == IF b = ScenarioBox THEN ScenarioTolerances ELSE Tolerances

\* a call unwrap(d_tolerance=tol) by the user (_count = 0)
CallUnwrap ==
    /\ pc = Idle
    /\ calls < MaxCalls
    /\ \E tol \in TolerancesFor(box) : d_tolerance' = tol
    /\ count' = 0
    /\ pc' = "scanning"
    /\ calls' = calls + 1
    /\ passes' = 0
    /\ pos0' = pos
    /\ passPos' = pos
    /\ op' = "unwrap"
    /\ prev' = <<op, result, d_tolerance>>
    /\ result' = "running"
    /\ report' = "none"
    /\ errTup' = << >>
    /\ molecules' = {}
    /\ maybe_outliers' = << >>
    /\ outliers' = {}
    /\ checked' = {}
    /\ starts' = {}
    /\ bond_i' = 1
    /\ UNCHANGED <<n, pos, bonds, box>>
    /\ UNCHANGED <<gvars, kvars, mvars>>

\* the head of unwrap: get_molecules, check_bad_bonds, the early return
Scan ==
    /\ pc = "scanning"
    /\ passes' = passes + 1
    /\ passPos' = pos
    /\ molecules' = connected_components(bonds)
    /\ maybe_outliers' = check_bad_bonds(pos, bonds, d_tolerance)
    /\ outliers' = {}
    /\ checked' = {}
    /\ starts' = {}
    /\ bond_i' = 1
    /\ IF maybe_outliers' = << >>
       THEN /\ report' = "NoChange"
            /\ result' = "NoChange"
            /\ pc' = Idle
       ELSE /\ pc' = "classifying"
            /\ UNCHANGED <<report, result>>
    /\ UNCHANGED <<n, pos, bonds, box, d_tolerance, count, errTup, op,
                   calls, pos0, prev>>
    /\ UNCHANGED <<gvars, kvars, mvars>>

\* find_outliers, one turn of the loop over maybe_outliers; after the
\* last turn starts = outliers.copy()
Classify ==
    /\ pc = "classifying"
    /\ \E v \in {classify_bond(pos, molecules, maybe_outliers[bond_i])} :
          IF v[1] = "raise"
          THEN /\ result' = "RuntimeError"
               /\ errTup' = maybe_outliers[bond_i]
               /\ pc' = Idle
               /\ UNCHANGED <<outliers, checked, starts, bond_i>>
          ELSE /\ outliers' = IF v[1] = "add" THEN outliers \cup {v[2]}
                                              ELSE outliers
               /\ checked' = checked \cup {maybe_outliers[bond_i][1],
                                            maybe_outliers[bond_i][2]}
               /\ bond_i' = bond_i + 1
               /\ IF bond_i' > Len(maybe_outliers)
                  THEN starts' = outliers' /\ pc' = "propagating"
                  ELSE starts' = starts /\ pc' = pc
               /\ UNCHANGED <<result, errTup>>
    /\ UNCHANGED <<n, pos, bonds, box, d_tolerance, count, molecules,
                   maybe_outliers, report, op, calls, passes, pos0,
                   passPos, prev>>
    /\ UNCHANGED <<gvars, kvars, mvars>>

\* find_outliers, one turn of the loop "while starts"
Propagate ==
    /\ pc = "propagating"
    /\ starts # {}
    /\ \E index \in starts :
          LET new == bond_dict(bonds)[index] \ checked
          IN  /\ outliers' = outliers \cup new
              /\ starts' = (starts \ {index}) \cup new
              /\ checked' = checked \cup {index}
    /\ UNCHANGED <<n, pos, bonds, box, pc, d_tolerance, count, molecules,
                   maybe_outliers, bond_i, result, report, errTup, op,
                   calls, passes, pos0, passPos, prev>>
    /\ UNCHANGED <<gvars, kvars, mvars>>

\* the loops over outliers and outlier_dict; freud.box.Box(*list(None))
\* raises TypeError in the first turn of the loop over outlier_dict
Relocate ==
    /\ pc = "propagating"
    /\ starts = {}
    /\ IF outliers # {} /\ box = NoBox
       THEN /\ result' = "TypeError"
            /\ pc' = Idle
            /\ pos' = pos
       ELSE /\ pos' = IF outliers = {} THEN pos
                      ELSE relocate(pos, molecules, outliers, box[1])
            /\ pc' = "verifying"
            /\ result' = result
    /\ UNCHANGED <<n, bonds, box, d_tolerance, count, molecules,
                   maybe_outliers, outliers, checked, starts, bond_i,
                   report, errTup, op, calls, passes, pos0, passPos, prev>>
    /\ UNCHANGED <<gvars, kvars, mvars>>

\* the last block of unwrap: check_bad_bonds again, retry or give up
Verify ==
    /\ pc = "verifying"
    /\ IF check_bad_bonds(pos, bonds, d_tolerance) # << >>
       THEN IF may_retry(count)
            THEN /\ count' = count + 1
                 /\ report' = "Retry"
                 /\ pc' = "scanning"
                 /\ result' = result
            ELSE /\ report' = "LimitExceeded"
                 /\ result' = "Failed"
                 /\ pc' = Idle
                 /\ count' = count
       ELSE /\ result' = "Done"
            /\ pc' = Idle
            /\ UNCHANGED <<count, report>>
    /\ UNCHANGED <<n, pos, bonds, box, d_tolerance, molecules,
                   maybe_outliers, outliers, checked, starts, bond_i,
                   errTup, op, calls, passes, pos0, passPos, prev>>
    /\ UNCHANGED <<gvars, kvars, mvars>>

\* a call wrap()
Wrap ==
    /\ pc = Idle
    /\ calls < MaxCalls
    /\ calls' = calls + 1
    /\ op' = "wrap"
    /\ prev' = <<op, result, d_tolerance>>
    /\ pos0' = pos
    /\ passPos' = pos
    /\ errTup' = << >>
    /\ IF box = NoBox
       THEN /\ report' = "CantWrap"
            /\ result' = "Skipped"
            /\ pos' = pos
       ELSE /\ pos' = wrap_positions(pos, box[1])
            /\ result' = "Wrapped"
            /\ report' = "none"
    /\ UNCHANGED <<n, bonds, box, pc, d_tolerance, count, molecules,
                   maybe_outliers, outliers, checked, starts, bond_i,
                   passes>>
    /\ UNCHANGED <<gvars, kvars, mvars>>

UnwrapStep == Scan \/ Classify \/ Propagate \/ Relocate \/ Verify

Next == Load \/ CallUnwrap \/ Wrap \/ Scan \/ Classify \/ Propagate \/ Relocate \/ Verify

vars == <<cvars, gvars, kvars, mvars>>

Init == InitCompound /\ InitMolecules /\ InitCoarse /\ InitMap

Spec == Init /\ [][Next]_vars

\* unwrap is synchronous straight-line code: a call that has begun keeps
\* taking its steps
FairSpec == Spec /\ WF_vars(UnwrapStep)

\* ---------------------------------------------------------------------
\* Properties of unwrap and wrap
\* ---------------------------------------------------------------------
\* the bonds longer than tol at positions p
LongBonds(p, tol) ==
    {k \in DOMAIN bonds : Abs(p[bonds[k][1]] - p[bonds[k][2]]) > tol}

UnwrapReturned ==
    pc = Idle /\ op = "unwrap" /\ result \in {"NoChange", "Done", "Failed"}

UnwrapRaised ==
    pc = Idle /\ op = "unwrap" /\ result \in {"RuntimeError", "TypeError"}

\* C2: every call of unwrap terminates, and it makes at most
\* retry_limit + 1 = 6 passes (the first pass and every retry).
C2_Terminates ==
    /\ [](passes <= 6)
    /\ (pc \notin {"new", Idle}) ~> (pc = Idle)

\* a call that made all six passes and gave up
C2_Witness == pc = Idle /\ op = "unwrap" /\ passes = 6 /\ result = "Failed"

\* C3: when unwrap returns normally, either no bond is longer than
\* d_tolerance and no failure was reported, or the counter stands at 5,
\* a bond is still longer than d_tolerance and "try limit exceeded" was
\* reported; the counter never passes 5.
C3_ReturnOutcome ==
    /\ count <= 5
    /\ (pc = Idle /\ op = "unwrap") => (UnwrapReturned \/ UnwrapRaised)
    /\ UnwrapReturned =>
          \/ /\ LongBonds(pos, d_tolerance) = {}
             /\ result \in {"NoChange", "Done"}
             /\ report # "LimitExceeded"
          \/ /\ LongBonds(pos, d_tolerance) # {}
             /\ result = "Failed"
             /\ report = "LimitExceeded"
             /\ count = 5

\* a call that ended in Done after at least one retry
C3_Witness == UnwrapReturned /\ result = "Done" /\ passes >= 2

\* C4 (as claimed): in the two-atom scenario, unwrap with a tolerance
\* below 9.8 leaves A at 0.1, moves B to -0.1 and ends with bond
\* length 0.2.
C4_ScenarioRepaired ==
    (box = ScenarioBox /\ calls = 1 /\ op = "unwrap" /\ pc = Idle
        /\ d_tolerance < 98) =>
    (pos[0] = 1 /\ pos[1] = -1 /\ Abs(pos[0] - pos[1]) = 2)

\* the two endpoints of bond tup are equally far from the centre of
\* their molecule, at positions p
Equidistant(p, tup) ==
    LET m == CHOOSE c \in molecules : tup[1] \in c
        k == Cardinality(m)
        total == SumOver(m, p)
    IN  Abs(k * p[tup[1]] - total) = Abs(k * p[tup[2]] - total)

BothPass(p, tup) ==
    is_outlier(p, molecules, tup[1]) /\ is_outlier(p, molecules, tup[2])

\* the running pass has classified all its bad bonds without raising
Classified ==
    \/ pc \in {"propagating", "verifying"}
    \/ UnwrapReturned /\ result \in {"Done", "Failed"}
    \/ pc = Idle /\ op = "unwrap" /\ result = "TypeError"
    \/ pc = "scanning" /\ passes >= 1

BadBondIndices == DOMAIN maybe_outliers

C6_NoChangeNeeded ==
    (op = "unwrap" /\ LongBonds(pos0, d_tolerance) = {} /\ pc # "scanning") =>
        /\ pc = Idle
        /\ result = "NoChange"
        /\ report = "NoChange"
        /\ maybe_outliers = << >>
        /\ passes = 1
        /\ pos = pos0

\* a second unwrap, with the same tolerance, after one that ended in Done
C6_Witness ==
    /\ pc = Idle /\ op = "unwrap" /\ result = "NoChange"
    /\ prev = <<"unwrap", "Done", d_tolerance>>

\* C7 (as claimed): neither a relocation pass nor a whole call leaves
\* more bonds longer than d_tolerance than it found.
C7_NoWorse ==
    /\ pc = "verifying" =>
          Cardinality(LongBonds(pos, d_tolerance))
              <= Cardinality(LongBonds(passPos, d_tolerance))
    /\ UnwrapReturned =>
          Cardinality(LongBonds(pos, d_tolerance))
              <= Cardinality(LongBonds(pos0, d_tolerance))

\* C8 (as claimed): without a box, wrap and unwrap (with a bad bond
\* present, and no ambiguous bond) are reported and skipped: no
\* exception, no particle moved.
C8_NoBoxSkipped ==
    (box = NoBox /\ pc = Idle /\ result # "RuntimeError") =>
        /\ op = "wrap" => (result = "Skipped" /\ report = "CantWrap" /\ pos = pos0)
        /\ (op = "unwrap" /\ LongBonds(pos0, d_tolerance) # {}) =>
              (result # "TypeError" /\ pos = pos0)

\* C9 (as claimed): after wrap on a compound with a box, every
\* coordinate x has -L/2 <= x < L/2, and a particle that was strictly
\* inside the cell has not moved.
C9_WrappedInCell ==
    (pc = Idle /\ op = "wrap" /\ result = "Wrapped") =>
        \A i \in Particles :
            /\ -box[1] <= 2 * pos[i]
            /\ 2 * pos[i] < box[1]
            /\ (2 * Abs(pos0[i]) < box[1]) => pos[i] = pos0[i]

\* ---------------------------------------------------------------------
\* get_molecules(snapshot)
\* ---------------------------------------------------------------------
RECURSIVE SeqsUpTo(_, _)
SeqsUpTo(S, len) ==
    IF len = 0 THEN {<< >>}
    ELSE LET shorter == SeqsUpTo(S, len - 1)
         IN  shorter \cup {Append(q, x) : q \in shorter, x \in S}

\* a frame of a trajectory: N particles and the rows of bonds.group
LoadSnapshot ==
    /\ gm_pc = "new"
    /\ \E N \in 1 .. MaxNodes :
          /\ gm_N' = N
          /\ bond_array' \in
                SeqsUpTo({<<a, b>> : a, b \in 0 .. (N - 1)} \ {<<a, a>> : a \in 0 .. (N - 1)},
                         MaxRows)
    /\ gm_pc' = "loaded"
    /\ UNCHANGED <<graph, graph_keys, gm_i, already_seen, nodes, group_acc,
                   gm_result>>
    /\ UNCHANGED <<cvars, kvars, mvars>>

\* the keys a defaultdict gets from the rows, in insertion order
RECURSIVE KeysOf(_, _, _)
KeysOf(rows, k, acc) ==
    IF k > Len(rows) THEN acc
    ELSE LET a == rows[k][1]
             b == rows[k][2]
             acc1 == IF \E i \in DOMAIN acc : acc[i] = a THEN acc
                     ELSE Append(acc, a)
             acc2 == IF \E i \in DOMAIN acc1 : acc1[i] = b THEN acc1
                     ELSE Append(acc1, b)
         IN  KeysOf(rows, k + 1, acc2)

\* _snap_bond_graph: node -> set of neighbours, for the nodes of the rows
snap_bond_graph(rows) ==
    LET keys == {rows[k][1] : k \in DOMAIN rows} \cup {rows[k][2] : k \in DOMAIN rows}
    IN  [v \in keys |->
            {rows[k][2] : k \in {r \in DOMAIN rows : rows[r][1] = v}}
              \cup {rows[k][1] : k \in {r \in DOMAIN rows : rows[r][2] = v}}]

\* graph = _snap_bond_graph(snapshot); already_seen = set(); result = []
BuildGraph ==
    /\ gm_pc = "loaded"
    /\ graph' = snap_bond_graph(bond_array)
    /\ graph_keys' = KeysOf(bond_array, 1, << >>)
    /\ already_seen' = {}
    /\ gm_result' = << >>
    /\ gm_i' = 1
    /\ gm_pc' = "loop"
    /\ UNCHANGED <<gm_N, bond_array, nodes, group_acc>>
    /\ UNCHANGED <<cvars, kvars, mvars>>

\* one turn of "for node in graph": skip a node already seen, or enter
\* _get_connected_group(node, already_seen); after the last turn, return
NextNode ==
    /\ gm_pc = "loop"
    /\ IF gm_i > Len(graph_keys)
       THEN /\ gm_pc' = "done"
            /\ UNCHANGED <<gm_i, nodes, group_acc>>
       ELSE IF graph_keys[gm_i] \in already_seen
       THEN /\ gm_i' = gm_i + 1
            /\ UNCHANGED <<gm_pc, nodes, group_acc>>
       ELSE /\ nodes' = {graph_keys[gm_i]}
            /\ group_acc' = {}
            /\ gm_pc' = "group"
            /\ UNCHANGED gm_i
    /\ UNCHANGED <<gm_N, bond_array, graph, graph_keys, already_seen, gm_result>>
    /\ UNCHANGED <<cvars, kvars, mvars>>

\* one turn of "while nodes" in _get_connected_group; set.pop() takes
\* an arbitrary element
PopNode ==
    /\ gm_pc = "group"
    /\ nodes # {}
    /\ \E node \in nodes :
          /\ already_seen' = already_seen \cup {node}
          /\ nodes' = (nodes \ {node}) \cup (graph[node] \ already_seen')
          /\ group_acc' = group_acc \cup {node}
    /\ UNCHANGED <<gm_pc, gm_N, bond_array, graph, graph_keys, gm_i, gm_result>>
    /\ UNCHANGED <<cvars, kvars, mvars>>

\* _get_connected_group returns; result.append(connected_group)
AppendGroup ==
    /\ gm_pc = "group"
    /\ nodes = {}
    /\ gm_result' = Append(gm_result, group_acc)
    /\ gm_i' = gm_i + 1
    /\ gm_pc' = "loop"
    /\ UNCHANGED <<gm_N, bond_array, graph, graph_keys, already_seen, nodes,
                   group_acc>>
    /\ UNCHANGED <<cvars, kvars, mvars>>

NextMol == LoadSnapshot \/ BuildGraph \/ NextNode \/ PopNode \/ AppendGroup

SpecMol == Init /\ [][NextMol]_vars

\* C1 (as claimed): the molecules get_molecules returns are pairwise
\* disjoint and their union is the set of all particle indices, so a
\* particle with no bond is a molecule of its own.
C1_Partition ==
    gm_pc = "done" =>
        /\ \A i, j \in DOMAIN gm_result :
              i # j => gm_result[i] \cap gm_result[j] = {}
        /\ UNION {gm_result[i] : i \in DOMAIN gm_result} = 0 .. (gm_N - 1)
        /\ \A v \in 0 .. (gm_N - 1) :
              (\A k \in DOMAIN bond_array : v \notin {bond_array[k][1], bond_array[k][2]})
                  => \E i \in DOMAIN gm_result : gm_result[i] = {v}

\* ---------------------------------------------------------------------
\* coarse(mol, bead_smarts): matches and the acceptance walk
\* ---------------------------------------------------------------------
\* SMARTS strings as sequences of characters: two chains and a ring
Patterns == { <<"C", "C">>, <<"C", "C", "C">>, <<"C", "1", "C", "C", "1">> }

\* the tuples of atom indices findall may return (pybel counts from 1)
GroupPool == { <<1, 2, 3>>, <<3, 4, 5>>, <<1, 2>>, <<4, 5>> }

Digits == {"0", "1", "2", "3", "4", "5", "6", "7", "8", "9"}

\* has_number with the test inverted
has_number_not(string) == ~(\E i \in DOMAIN string : string[i] \in Digits)

\* has_number: re.search("[0-9]", string)
has_number(string) == \E i \in DOMAIN string : string[i] \in Digits

\* has_common_member that looks at the first member of tup only
has_common_member_first(set_a, tup) == set_a \cap {tup[1]}

\* has_common_member: set_a & set(tup); the caller tests it for truth
has_common_member(set_a, tup) == set_a \cap {tup[i] : i \in DOMAIN tup}

\* chr(c) for the codes of the capital letters, 65 to 90
Chr(c) ==
    << "A", "B", "C", "D", "E", "F", "G", "H", "I", "J", "K", "L", "M",
       "N", "O", "P", "Q", "R", "S", "T", "U", "V", "W", "X", "Y", "Z" >>[c - 64]

\* num2str(num), as a sequence of characters
num2str(num) ==
    IF num < 26 THEN << Chr(num + 65) >>
    ELSE << Chr((num \div 26) + 64), Chr((num % 26) + 65) >>

\* tuple(i - 1 for i in group)
zero_indexed(group) == [i \in DOMAIN group |-> group[i] - 1]

\* the matches one SMARTS string adds: (group, smart_str, "_" + label)
\* with i the position of the string in bead_smarts, counted from 0
RECURSIVE matches_of(_, _, _, _)
matches_of(groups, smart_str, i, k) ==
    IF k > Len(groups) THEN << >>
    ELSE << [group |-> zero_indexed(groups[k]), smarts |-> smart_str,
             name |-> <<"_">> \o num2str(i)] >>
             \o matches_of(groups, smart_str, i, k + 1)

Distinct(q) == \A i, j \in DOMAIN q : i # j => q[i] # q[j]
SameLength(q) == \A i, j \in DOMAIN q : Len(q[i]) = Len(q[j])

\* the molecules explored have five atoms, all heavy; their coordinates
\* on the x axis in Angstrom
MolCoords == { <<0, 10, 20, 30, 40>>, <<0, 10, 30, 60, 100>> }

\* the bonds of the molecule as OBMolBondIter yields them: a chain written
\* forwards, a chain with some bonds written backwards, a chain with an
\* extra bond 2-4 and a ring closed by 5-1
MolBonds ==
    { << <<1, 2>>, <<2, 3>>, <<3, 4>>, <<4, 5>> >>,
      << <<2, 1>>, <<2, 3>>, <<4, 3>>, <<4, 5>> >>,
      << <<1, 2>>, <<2, 3>>, <<3, 4>>, <<4, 2>>, <<4, 5>> >>,
      << <<1, 2>>, <<3, 4>>, <<4, 5>>, <<5, 1>> >> }

\* what findall can return for one string: distinct tuples of one length
FindResults ==
    {q \in SeqsUpTo(GroupPool, MaxFound) : Distinct(q) /\ SameLength(q)}

\* the number of atoms a SMARTS string of the explored kind matches
AtomCount(smarts) == Cardinality({i \in DOMAIN smarts : smarts[i] \notin Digits})

\* the caller's molecule and SMARTS strings; findall is pybel's, so its
\* results are inputs (the same string finds the same groups)
LoadMol ==
    /\ k_pc = "new"
    /\ bead_smarts' \in SeqsUpTo(Patterns, MaxPatterns) \ {<< >>}
    /\ found' \in [DOMAIN bead_smarts' -> FindResults]
    /\ \A i, j \in DOMAIN bead_smarts' :
          bead_smarts'[i] = bead_smarts'[j] => found'[i] = found'[j]
    /\ \A i \in DOMAIN bead_smarts' : \A k \in DOMAIN found'[i] :
          Len(found'[i][k]) = AtomCount(bead_smarts'[i])
    /\ mol_coords' \in MolCoords
    /\ mol_bonds' \in MolBonds
    /\ unitcell' \in BOOLEAN
    /\ atomistic' \in BOOLEAN
    /\ k_pc' = "matching"
    /\ UNCHANGED <<k_i, matches, k_m, seen, bead_inds, printed, bvars>>
    /\ UNCHANGED <<cvars, gvars, mvars>>

\* one turn of "for i, smart_str in enumerate(bead_smarts)"; after the
\* last turn seen = set() and bead_inds = []
FindAll ==
    /\ k_pc = "matching"
    /\ printed' = IF found[k_i] = << >> THEN printed \cup {bead_smarts[k_i]}
                  ELSE printed
    /\ matches' = matches \o matches_of(found[k_i], bead_smarts[k_i], k_i - 1, 1)
    /\ k_i' = k_i + 1
    /\ k_pc' = IF k_i' > Len(bead_smarts) THEN "walking" ELSE k_pc
    /\ seen' = {}
    /\ bead_inds' = << >>
    /\ k_m' = 1
    /\ UNCHANGED <<bead_smarts, found, mol_coords, mol_bonds, unitcell,
                   atomistic, bvars>>
    /\ UNCHANGED <<cvars, gvars, mvars>>

AtomsOf(group) == {group[i] : i \in DOMAIN group}

\* one turn of "for group, smarts, name in matches"
Walk ==
    /\ k_pc = "walking"
    /\ k_m <= Len(matches)
    /\ LET m == matches[k_m]
       IN  IF has_number(m.smarts)
           THEN /\ seen' = seen \cup AtomsOf(m.group)
                /\ bead_inds' = Append(bead_inds, m)
           ELSE IF has_common_member(seen, m.group) # {}
           THEN UNCHANGED <<seen, bead_inds>>
           ELSE /\ seen' = seen \cup AtomsOf(m.group)
                /\ bead_inds' = Append(bead_inds, m)
    /\ k_m' = k_m + 1
    /\ UNCHANGED <<k_pc, bead_smarts, found, k_i, matches, printed,
                   mol_coords, mol_bonds, unitcell, atomistic, bvars>>
    /\ UNCHANGED <<cvars, gvars, mvars>>

\* the loop over matches is over
WalkDone ==
    /\ k_pc = "walking"
    /\ k_m > Len(matches)
    /\ k_pc' = "walked"
    /\ UNCHANGED <<bead_smarts, found, k_i, matches, k_m, seen, bead_inds,
                   printed, mol_coords, mol_bonds, unitcell, atomistic, bvars>>
    /\ UNCHANGED <<cvars, gvars, mvars>>

\* mol.OBMol.NumHvyAtoms(): every atom of the molecules explored is heavy
NumHvyAtoms(coords) == Len(coords)

\* lines 454-458: the coverage warning; the message has no argument
Coverage ==
    /\ k_pc = "walked"
    /\ warned' = IF NumHvyAtoms(mol_coords) # Cardinality(seen)
                 THEN Append(warned,
                   [text |-> "WARNING: Some atoms have been left out of coarse-graining!",
                    args |-> << >>])
                 ELSE warned
    /\ k_pc' = "covered"
    /\ UNCHANGED <<bead_smarts, found, k_i, matches, k_m, seen, bead_inds,
                   printed, mol_coords, mol_bonds, unitcell, atomistic>>
    /\ UNCHANGED <<comp, comp_bonds, comp_N, bead_bonds, removed>>
    /\ UNCHANGED <<cvars, gvars, mvars>>

\* from_pybel: one particle per atom, in the order of the atoms, at
\* atom.coords / 10; a position is kept as the fraction <<num, den>>
from_pybel_particles(coords) ==
    [i \in DOMAIN coords |->
        [name |-> <<"C">>, pos |-> <<coords[i], 10>>, smarts |-> << >>]]

\* from_pybel: one edge per bond of the molecule, atoms counted from 0
from_pybel_bonds(obbonds) ==
    { {obbonds[i][1] - 1, obbonds[i][2] - 1} : i \in DOMAIN obbonds }

\* line 460: comp = CG_Compound.from_pybel(mol); without a unit cell box
\* is None and box.maxs raises AttributeError
FromPybel ==
    /\ k_pc = "covered"
    /\ IF unitcell
       THEN /\ comp' = from_pybel_particles(mol_coords)
            /\ comp_bonds' = from_pybel_bonds(mol_bonds)
            /\ k_pc' = "built"
       ELSE /\ k_pc' = "AttributeError"
            /\ UNCHANGED <<comp, comp_bonds>>
    /\ UNCHANGED <<bead_smarts, found, k_i, matches, k_m, seen, bead_inds,
                   printed, mol_coords, mol_bonds, unitcell, atomistic>>
    /\ UNCHANGED <<warned, comp_N, bead_bonds, removed>>
    /\ UNCHANGED <<cvars, gvars, mvars>>

\* the sum of the fractions q[k], q[k+1], ...
RECURSIVE frac_sum(_, _)
frac_sum(q, k) ==
    IF k > Len(q) THEN <<0, 1>>
    ELSE LET r == frac_sum(q, k + 1)
         IN  <<q[k][1] * r[2] + r[1] * q[k][2], q[k][2] * r[2]>>

\* np.mean without the division
np_mean_sum(q) == frac_sum(q, 1)

\* np.mean(bead_xyz, axis=0)
np_mean(q) == <<frac_sum(q, 1)[1], frac_sum(q, 1)[2] * Len(q)>>

\* cg_comp that makes one bead per bead name
RECURSIVE cg_comp_per_name(_, _, _)
cg_comp_per_name(c, inds, k) ==
    IF k > Len(inds) THEN c
    ELSE IF \E p \in DOMAIN c : c[p].name = inds[k].name
    THEN cg_comp_per_name(c, inds, k + 1)
    ELSE cg_comp_per_name(
             Append(c, [name |-> inds[k].name, pos |-> <<0, 1>>,
                        smarts |-> inds[k].smarts]), inds, k + 1)

\* cg_comp: for each entry of bead_inds from the k-th on, a particle at
\* the mean of comp.xyz[bead, :] is added to comp
RECURSIVE cg_comp(_, _, _)
cg_comp(c, inds, k) ==
    IF k > Len(inds) THEN c
    ELSE LET bead == inds[k].group
             bead_xyz == [i \in DOMAIN bead |-> c[bead[i] + 1].pos]
         IN  cg_comp(
                 Append(c, [name |-> inds[k].name, pos |-> np_mean(bead_xyz),
                            smarts |-> inds[k].smarts]), inds, k + 1)

\* line 461: comp, N = cg_comp(comp, bead_inds)
CgComp ==
    /\ k_pc = "built"
    /\ comp_N' = Len(comp)
    /\ comp' = cg_comp(comp, bead_inds, 1)
    /\ k_pc' = "beaded"
    /\ UNCHANGED <<bead_smarts, found, k_i, matches, k_m, seen, bead_inds,
                   printed, mol_coords, mol_bonds, unitcell, atomistic>>
    /\ UNCHANGED <<warned, comp_bonds, bead_bonds, removed>>
    /\ UNCHANGED <<cvars, gvars, mvars>>

Min2(a, b) == IF a < b THEN a ELSE b
Max2(a, b) == IF a < b THEN b ELSE a
PairLess(x, y) == x[1] < y[1] \/ (x[1] = y[1] /\ x[2] < y[2])

\* a set of pairs as the list sorted by (tup[0], tup[1])
RECURSIVE sorted_pairs(_)
sorted_pairs(S) ==
    IF S = {} THEN << >>
    ELSE LET lo == CHOOSE x \in S : \A y \in S \ {x} : PairLess(x, y)
         IN  <<lo>> \o sorted_pairs(S \ {lo})

\* CG_Compound.get_bonds: the edges as sorted tuples, in sorted order
get_bonds(edges) ==
    sorted_pairs({ <<Min2(a, b), Max2(a, b)>> : <<a, b>> \in
                     {t \in UNION {e \X e : e \in edges} : t[1] # t[2]} })

InGroup(a, bead) == \E i \in DOMAIN bead : bead[i] = a

\* the body of "for pair in bonds" with its second test left out
pair_hits_forward(pair, bead_i, bead_j, i, j) ==
    IF InGroup(pair[1], bead_i) /\ InGroup(pair[2], bead_j)
    THEN << <<i, j>> >> ELSE << >>

\* the body of "for pair in bonds": what it appends to bead_bonds
pair_hits(pair, bead_i, bead_j, i, j) ==
    (IF InGroup(pair[1], bead_i) /\ InGroup(pair[2], bead_j)
     THEN << <<i, j>> >> ELSE << >>)
    \o (IF InGroup(pair[2], bead_i) /\ InGroup(pair[1], bead_j)
        THEN << <<i, j>> >> ELSE << >>)

\* "for pair in bonds", from the k-th bond on
RECURSIVE over_bonds(_, _, _, _, _)
over_bonds(bl, k, beads, i, j) ==
    IF k > Len(bl) THEN << >>
    ELSE pair_hits(bl[k], beads[i + 1].group, beads[j + 1].group, i, j)
         \o over_bonds(bl, k + 1, beads, i, j)

\* "for j, ... in enumerate(beads[(i + 1):])", from bead j on
RECURSIVE over_j(_, _, _, _)
over_j(bl, beads, i, j) ==
    IF j > Len(beads) - 1 THEN << >>
    ELSE over_bonds(bl, 1, beads, i, j) \o over_j(bl, beads, i, j + 1)

\* "for i, ... in enumerate(beads[:-1])", from bead i on
RECURSIVE over_i(_, _, _)
over_i(bl, beads, i) ==
    IF i > Len(beads) - 2 THEN << >>
    ELSE over_j(bl, beads, i, i + 1) \o over_i(bl, beads, i + 1)

\* line 462: comp = cg_bonds(comp, bead_inds, N); add_bond puts an edge in
\* the bond graph, where an edge is there once however often it is added
CgBonds ==
    /\ k_pc = "beaded"
    /\ \E bb \in {over_i(get_bonds(comp_bonds), bead_inds, 0)} :
         /\ bead_bonds' = bb
         /\ comp_bonds' = comp_bonds \cup
              { {bb[k][1] + comp_N, bb[k][2] + comp_N} : k \in DOMAIN bb }
    /\ k_pc' = "bonded"
    /\ UNCHANGED <<bead_smarts, found, k_i, matches, k_m, seen, bead_inds,
                   printed, mol_coords, mol_bonds, unitcell, atomistic>>
    /\ UNCHANGED <<warned, comp, comp_N, removed>>
    /\ UNCHANGED <<cvars, gvars, mvars>>

\* lines 464-467: remove_atomistic unless atomistic, and return comp
Finish ==
    /\ k_pc = "bonded"
    /\ removed' = ~atomistic
    /\ k_pc' = "done"
    /\ UNCHANGED <<bead_smarts, found, k_i, matches, k_m, seen, bead_inds,
                   printed, mol_coords, mol_bonds, unitcell, atomistic>>
    /\ UNCHANGED <<warned, comp, comp_bonds, comp_N, bead_bonds>>
    /\ UNCHANGED <<cvars, gvars, mvars>>

NextCoarse ==
    \/ LoadMol \/ FindAll \/ Walk \/ WalkDone
    \/ Coverage \/ FromPybel \/ CgComp \/ CgBonds \/ Finish

SpecCoarse == Init /\ [][NextCoarse]_vars

\* ---------------------------------------------------------------------
\* Properties of the acceptance walk
\* ---------------------------------------------------------------------
RingLike(m) == \E i \in DOMAIN m.smarts : m.smarts[i] \in Digits
Members(m) == {m.group[i] : i \in DOMAIN m.group}

\* what one turn of the walk does with the match it looks at
WalkTurn ==
    (k_pc = "walking" /\ k_m' = k_m + 1) =>
        LET m == matches[k_m]
        IN  IF RingLike(m) \/ Members(m) \cap seen = {}
            THEN /\ bead_inds' = Append(bead_inds, m)
                 /\ seen' = seen \cup Members(m)
            ELSE /\ bead_inds' = bead_inds
                 /\ seen' = seen

\* accepted chain-like groups are pairwise disjoint, the claimed atoms
\* are those of the accepted groups, and the chain matches {0,1,2} then
\* {2,3,4} leave one accepted group
WalkInv ==
    k_pc \in {"walking", "walked"} =>
        /\ \A i, j \in DOMAIN bead_inds :
              (i # j /\ ~RingLike(bead_inds[i]) /\ ~RingLike(bead_inds[j]))
                  => Members(bead_inds[i]) \cap Members(bead_inds[j]) = {}
        /\ seen = UNION {Members(bead_inds[i]) : i \in DOMAIN bead_inds}
        /\ (/\ k_pc = "walked"
            /\ Len(matches) = 2
            /\ ~RingLike(matches[1]) /\ ~RingLike(matches[2])
            /\ Members(matches[1]) = {0, 1, 2}
            /\ Members(matches[2]) = {2, 3, 4})
              => bead_inds = << matches[1] >>

\* C10: the walk accepts every ring-like match and adds its atoms to the
\* claimed set; it accepts a chain-like match if and only if none of its
\* atoms is claimed, and a rejected match adds nothing; so accepted
\* chain-like groups share no atom, and chain matches {0,1,2} then
\* {2,3,4} give exactly one accepted group.
C10_GreedyWalk == [][WalkTurn]_vars /\ []WalkInv

\* the walk over the chain matches {0,1,2} and {2,3,4} is over, with the
\* second match discarded
C10_Witness ==
    /\ k_pc = "walked"
    /\ Len(matches) = 2
    /\ ~RingLike(matches[1]) /\ ~RingLike(matches[2])
    /\ Members(matches[1]) = {0, 1, 2}
    /\ Members(matches[2]) = {2, 3, 4}
    /\ Len(bead_inds) = 1
    /\ seen = {0, 1, 2}

\* ---------------------------------------------------------------------
\* Properties of the reduced structure
\* ---------------------------------------------------------------------
\* the bonds of the molecule as sets of atoms counted from 0
AtomBonds == { {mol_bonds[i][1] - 1, mol_bonds[i][2] - 1} : i \in DOMAIN mol_bonds }

\* the particle that is the bead of the k-th accepted group (k from 1)
BeadOf(k) == comp_N + k - 1

\* some bond of the molecule has one end in G_i and the other in G_j
Crossing(i, j) ==
    \E e \in AtomBonds : \E a, b \in e :
        /\ a # b
        /\ a \in Members(bead_inds[i])
        /\ b \in Members(bead_inds[j])

\* how many bonds of the molecule cross between G_i and G_j
CrossingCount(i, j) ==
    Cardinality({e \in AtomBonds : \E a, b \in e :
        a # b /\ a \in Members(bead_inds[i]) /\ b \in Members(bead_inds[j])})

BeadsBonded == k_pc \in {"bonded", "done"}

\* C11: for every two distinct accepted groups, their beads are bonded if
\* and only if some bond of the molecule has one end in each group; the
\* bond graph holds each pair once (an edge is a set of two particles),
\* no bead is bonded to itself, and the bonds of the atoms are as they
\* were.
C11_BeadBonds ==
    BeadsBonded =>
        /\ \A i, j \in DOMAIN bead_inds :
              i # j => ({BeadOf(i), BeadOf(j)} \in comp_bonds <=> Crossing(i, j))
        /\ \A e \in comp_bonds : Cardinality(e) = 2
        /\ \A e \in comp_bonds :
              \/ e \in AtomBonds
              \/ \E i, j \in DOMAIN bead_inds : e = {BeadOf(i), BeadOf(j)}

\* two groups with more than one bond of the molecule between them, found
\* more than once by cg_bonds, and one bond between their beads
C11_Witness ==
    /\ BeadsBonded
    /\ \E i, j \in DOMAIN bead_inds :
         /\ i < j
         /\ CrossingCount(i, j) >= 2
         /\ Cardinality({k \in DOMAIN bead_bonds :
                           bead_bonds[k] = <<i - 1, j - 1>>}) >= 2
         /\ {BeadOf(i), BeadOf(j)} \in comp_bonds

\* the heavy atoms no accepted group claims
Uncovered == (0 .. (Len(mol_coords) - 1)) \ seen

CoverageDone ==
    k_pc \in {"covered", "built", "beaded", "bonded", "done", "AttributeError"}

\* C12: after the walk the coverage warning is printed if and only if some
\* heavy atom is claimed by no accepted group, and the warning names the
\* number of uncovered atoms.
C12_CoverageWarning ==
    CoverageDone =>
        /\ (warned # << >>) <=> (Uncovered # {})
        /\ \A w \in DOMAIN warned :
              \E a \in DOMAIN warned[w].args :
                  warned[w].args[a] = Cardinality(Uncovered)

Beads == { comp[p] : p \in (comp_N + 1) .. Len(comp) }
BeadsMade == k_pc \in {"beaded", "bonded", "done"}
Letters == { Chr(c) : c \in 65 .. 90 }

\* the label of a bead: its name after the leading "_"
LabelOf(particle) == Tail(particle.name)

\* C13: the beads of one reduction carry labels made of the letters A to Z
\* only, and no two beads carry the same label, two beads made from the
\* same pattern included.
C13_UniqueLabels ==
    BeadsMade =>
        /\ \A p \in (comp_N + 1) .. Len(comp) :
              /\ LabelOf(comp[p]) # << >>
              /\ \A i \in DOMAIN LabelOf(comp[p]) :
                    LabelOf(comp[p])[i] \in Letters
        /\ \A p, q \in (comp_N + 1) .. Len(comp) :
              p # q => LabelOf(comp[p]) # LabelOf(comp[q])

\* C14: there is one bead per accepted group, in the order of acceptance,
\* carrying the group's label and pattern; the atoms are the particles
\* before the beads; a pattern that matched nothing has no bead.
C14_BeadPerGroup ==
    BeadsMade =>
        /\ Len(comp) - comp_N = Len(bead_inds)
        /\ comp_N = Len(mol_coords)
        /\ \A k \in DOMAIN bead_inds :
              /\ comp[comp_N + k].name = bead_inds[k].name
              /\ comp[comp_N + k].smarts = bead_inds[k].smarts
        /\ Cardinality({p \in DOMAIN comp : comp[p].name[1] = "_"})
              = Len(bead_inds)
        /\ \A sm \in printed : \A p \in DOMAIN comp : comp[p].smarts # sm

\* the reduction is over; one match was discarded, one pattern matched
\* nothing and there is a bead
C14_Witness ==
    /\ k_pc = "done"
    /\ Len(matches) > Len(bead_inds)
    /\ printed # {}
    /\ Len(comp) - comp_N = Len(bead_inds)
    /\ Len(bead_inds) >= 1

\* the sum of the coordinates (in Angstrom) of the atoms of a group
RECURSIVE CoordSum(_, _)
CoordSum(group, k) ==
    IF k > Len(group) THEN 0
    ELSE mol_coords[group[k] + 1] + CoordSum(group, k + 1)

\* C15: the position of the bead of an accepted group is the sum of the
\* positions of the group's atoms (atom.coords / 10) divided by the number
\* of atoms in the group, and the atoms are where from_pybel put them.
C15_BeadAtMean ==
    BeadsMade =>
        /\ \A k \in DOMAIN bead_inds :
              LET b == comp[comp_N + k].pos
                  g == bead_inds[k].group
              IN  /\ b[2] > 0
                  /\ b[1] * (10 * Len(g)) = b[2] * CoordSum(g, 1)
        /\ \A a \in 1 .. comp_N : comp[a].pos = <<mol_coords[a], 10>>

\* a second bead, made after the first was added to comp, whose mean is
\* the position of no atom of its group
C15_Witness ==
    /\ k_pc = "done"
    /\ Len(bead_inds) >= 2
    /\ LET b == comp[comp_N + 2].pos
           g == bead_inds[2].group
       IN  /\ b[1] * (10 * Len(g)) = b[2] * CoordSum(g, 1)
           /\ \A i \in DOMAIN g : b[1] * 10 # b[2] * mol_coords[g[i] + 1]

\* ---------------------------------------------------------------------
\* Further properties of unwrap
\* ---------------------------------------------------------------------
\* what a step of a call of unwrap (its entry included) may change
FrameStep ==
    (pc \notin {"new", Idle} \/ pc' = "scanning") =>
        /\ n' = n
        /\ bonds' = bonds
        /\ box' = box
        /\ \A i \in Particles :
              pos'[i] # pos[i] => (pc = "propagating" /\ i \in outliers)

\* after the relocation of a pass, the particles outside the pass's
\* outlier set are where they were when the pass began
FrameInv ==
    pc = "verifying" =>
        \A i \in Particles \ outliers : pos[i] = passPos[i]

\* C16: no step of unwrap changes the particles, the bonds or the box, and
\* the only positions a pass changes are those of the particles in that
\* pass's outlier set.
C16_OnlyOutliersMove == [][FrameStep]_vars /\ []FrameInv

\* a retry pass has moved an outlier and left another particle in place
C16_Witness ==
    /\ pc = "verifying"
    /\ passes >= 2
    /\ \E i \in outliers : pos[i] # passPos[i]
    /\ Particles \ outliers # {}

\* the molecule of particle i without the outliers of the pass
Anchor(i) == (CHOOSE m \in molecules : i \in m) \ outliers

\* C18: after the relocating step every outlier with a non-empty anchor
\* group is at pos + image * L, where image is +1 if the mean of the
\* anchor group minus pos exceeds L/2, -1 if it is below -L/2 and 0
\* otherwise; every displacement is -L, 0 or +L.
C18_ImageShift ==
    pc = "verifying" =>
        /\ \A i \in outliers :
              Anchor(i) # {} =>
                  LET k == Cardinality(Anchor(i))
                      total == SumOver(Anchor(i), passPos)
                      L == box[1]
                      diff == total - k * passPos[i]
                  IN  /\ (2 * diff > k * L) => pos[i] = passPos[i] + L
                      /\ (2 * diff < -(k * L)) => pos[i] = passPos[i] - L
                      /\ (2 * diff <= k * L /\ 2 * diff >= -(k * L))
                            => pos[i] = passPos[i]
        /\ outliers # {} =>
              \A i \in Particles :
                  pos[i] - passPos[i] \in {-box[1], 0, box[1]}

\* one outlier moved by +L, or by -L, while an outlier whose distance to
\* the anchor mean is exactly L/2 stayed
C18_Witness ==
    /\ pc = "verifying"
    /\ \E i \in outliers : Abs(pos[i] - passPos[i]) = box[1]
    /\ \E i \in outliers :
         /\ Anchor(i) # {}
         /\ 2 * Abs(SumOver(Anchor(i), passPos)
                      - Cardinality(Anchor(i)) * passPos[i])
              = Cardinality(Anchor(i)) * box[1]
         /\ pos[i] = passPos[i]

\* the endpoints of the k-th bad bond of the pass
Ends(k) == {maybe_outliers[k][1], maybe_outliers[k][2]}

\* the exclusion test and the distance to the centre, at the positions
\* the pass began with
Passes(e) == is_outlier(passPos, molecules, e)
Farther(e, o) ==
    FracGT(d_to_center(passPos, molecules, e), d_to_center(passPos, molecules, o))

\* e is the endpoint of the k-th bad bond that the rule names as the
\* outlier: the only one that passes the exclusion test, or of two that
\* pass the one strictly farther from the centre
Chosen(k, e) ==
    /\ e \in Ends(k)
    /\ \A o \in Ends(k) \ {e} :
          \/ Passes(e) /\ ~Passes(o)
          \/ Passes(e) /\ Passes(o) /\ Farther(e, o)

\* the bad bonds the classification loop has gone through in this pass
Decided ==
    IF pc \in {"classifying", "propagating", "verifying"}
    THEN 1 .. (bond_i - 1) ELSE {}

\* C19: every bad bond the classification has gone through without the
\* ambiguity error has exactly one endpoint named as its outlier: the one
\* the rule chooses is in the outlier set, and the other endpoint is in
\* the set only as the chosen endpoint of another bad bond.
C19_OneEndpointPerBond ==
    \A k \in Decided :
        \E e \in Ends(k) :
            /\ Chosen(k, e)
            /\ e \in outliers
            /\ \A o \in (Ends(k) \ {e}) \cap outliers :
                  \E k2 \in Decided \ {k} : Chosen(k2, o)

\* the endpoints the rule names as outliers, and the other endpoints of
\* bad bonds
ClassifiedOutliers ==
    {e \in Particles : \E k \in DOMAIN maybe_outliers : Chosen(k, e)}
NonOutlierEnds ==
    (UNION {Ends(k) : k \in DOMAIN maybe_outliers}) \ ClassifiedOutliers

\* S and every particle a path of bonds from S reaches without passing
\* through a particle of avoid
RECURSIVE ReachAvoiding(_, _)
ReachAvoiding(S, avoid) ==
    LET T == S \cup {j \in Particles \ avoid :
                        \E i \in S : Bonded(bonds, i, j)}
    IN  IF T = S THEN S ELSE ReachAvoiding(T, avoid)

FloodDone == (pc = "propagating" /\ starts = {}) \/ pc = "verifying"

FloodInv ==
    /\ pc \in {"propagating", "verifying"} =>
          /\ outliers \cap NonOutlierEnds = {}
          /\ ClassifiedOutliers \subseteq outliers
          /\ outliers \subseteq ReachAvoiding(ClassifiedOutliers, NonOutlierEnds)
    /\ FloodDone =>
          outliers = ReachAvoiding(ClassifiedOutliers, NonOutlierEnds)

\* C20: when the flood fill is over the outlier set is the classified
\* outliers and every particle a path of bonds reaches from one of them
\* without passing through a bad-bond endpoint that was classified as a
\* non-outlier; such an endpoint is never in the set; the flood fill ends.
C20_FloodFill == []FloodInv /\ ((pc = "propagating") ~> (pc # "propagating"))

\* the flood fill added a particle to the classified outliers and was
\* stopped at a non-outlier endpoint bonded to an outlier by a good bond
C20_Witness ==
    /\ pc = "verifying"
    /\ outliers # ClassifiedOutliers
    /\ \E e \in NonOutlierEnds : \E o \in outliers :
         /\ Bonded(bonds, e, o)
         /\ \A k \in DOMAIN maybe_outliers : Ends(k) # {e, o}

\* ---------------------------------------------------------------------
\* map_good_on_bad(good_mol, bad_mol)
\* ---------------------------------------------------------------------
\* the typings explored: what a well-typed molecule gives an atom or a
\* bond, and what a poorly-typed one gives it
GoodAtomTypings ==
    { [type |-> "C3", aromatic |-> FALSE], [type |-> "Car", aromatic |-> TRUE],
      [type |-> "N3", aromatic |-> FALSE] }
BadAtomTypings ==
    { [type |-> "C3", aromatic |-> FALSE], [type |-> "C2", aromatic |-> TRUE] }
GoodBondTypings ==
    { [order |-> 1, aromatic |-> FALSE], [order |-> 2, aromatic |-> TRUE] }
BadBondTypings ==
    { [order |-> 1, aromatic |-> FALSE], [order |-> 1, aromatic |-> TRUE] }

\* two molecules with the same atoms in the same order (the function
\* assumes it): chains of N atoms and N - 1 bonds, atom i of bad_mol at
\* x = i
LoadPair ==
    /\ m_pc = "new"
    /\ \E N \in 1 .. MaxAtoms :
         /\ good_atoms' \in [1 .. N -> GoodAtomTypings]
         /\ \E t \in [1 .. N -> BadAtomTypings] :
              bad_atoms' = [i \in 1 .. N |->
                  [type |-> t[i].type, aromatic |-> t[i].aromatic, pos |-> i]]
         /\ good_bonds' \in [1 .. (N - 1) -> GoodBondTypings]
         /\ bad_bonds' \in [1 .. (N - 1) -> BadBondTypings]
    /\ bad_atoms0' = bad_atoms'
    /\ m_pc' = "atoms"
    /\ m_i' = 1
    /\ UNCHANGED <<cvars, gvars, kvars>>

\* OBMol.NumAtoms(), OBMol.NumBonds()
NumAtoms(atoms) == Len(atoms)
NumBonds(obbonds) == Len(obbonds)

\* OBMol.GetAtom(i): atoms are counted from 1
GetAtom(atoms, i) == atoms[i]

\* OBMol.GetBond(i): bonds are counted from 0
GetBond(obbonds, i) == obbonds[i + 1]

\* one turn of "for i in range(1, good_mol.OBMol.NumAtoms())"
MapAtom ==
    /\ m_pc = "atoms"
    /\ m_i < NumAtoms(good_atoms)
    /\ bad_atoms' = [bad_atoms EXCEPT
          ![m_i] = [type |-> GetAtom(good_atoms, m_i).type,
                    aromatic |-> GetAtom(good_atoms, m_i).aromatic,
                    pos |-> @.pos]]
    /\ m_i' = m_i + 1
    /\ UNCHANGED <<m_pc, good_atoms, good_bonds, bad_bonds, bad_atoms0>>
    /\ UNCHANGED <<cvars, gvars, kvars>>

\* the loop over the atoms is over
AtomsDone ==
    /\ m_pc = "atoms"
    /\ m_i >= NumAtoms(good_atoms)
    /\ m_pc' = "bonds"
    /\ m_i' = 1
    /\ UNCHANGED <<good_atoms, bad_atoms, good_bonds, bad_bonds, bad_atoms0>>
    /\ UNCHANGED <<cvars, gvars, kvars>>

\* one turn of "for i in range(1, good_mol.OBMol.NumBonds())"
MapBond ==
    /\ m_pc = "bonds"
    /\ m_i < NumBonds(good_bonds)
    /\ bad_bonds' = [bad_bonds EXCEPT
          ![m_i + 1] = [order |-> GetBond(good_bonds, m_i).order,
                        aromatic |-> GetBond(good_bonds, m_i).aromatic]]
    /\ m_i' = m_i + 1
    /\ UNCHANGED <<m_pc, good_atoms, bad_atoms, good_bonds, bad_atoms0>>
    /\ UNCHANGED <<cvars, gvars, kvars>>

\* the loop over the bonds is over: return bad_mol
MapReturn ==
    /\ m_pc = "bonds"
    /\ m_i >= NumBonds(good_bonds)
    /\ m_pc' = "returned"
    /\ UNCHANGED <<good_atoms, bad_atoms, good_bonds, bad_bonds, bad_atoms0,
                   m_i>>
    /\ UNCHANGED <<cvars, gvars, kvars>>

NextMap == LoadPair \/ MapAtom \/ AtomsDone \/ MapBond \/ MapReturn

SpecMap == Init /\ [][NextMap]_vars

\* C17: when map_good_on_bad returns, every atom of bad_mol, the first to
\* the last, has the type and the aromatic flag of good_mol's atom, every
\* bond of bad_mol, the first to the last, has the order and the aromatic
\* flag of good_mol's bond, and the atoms of bad_mol are where they were.
C17_AllTypingMapped ==
    m_pc = "returned" =>
        /\ \A i \in DOMAIN bad_atoms :
              /\ bad_atoms[i].type = good_atoms[i].type
              /\ bad_atoms[i].aromatic = good_atoms[i].aromatic
              /\ bad_atoms[i].pos = bad_atoms0[i].pos
        /\ \A i \in DOMAIN bad_bonds :
              /\ bad_bonds[i].order = good_bonds[i].order
              /\ bad_bonds[i].aromatic = good_bonds[i].aromatic

\* the molecules of the pass that hold an outlier
MoleculesWithOutliers == {m \in molecules : m \cap outliers # {}}

\* C21: from the end of the classification to the end of the relocation
\* of a pass, every molecule that holds an outlier also holds a particle
\* that is not an outlier, so the mean of the anchor group is taken over
\* at least one particle.
C21_AnchorNotEmpty ==
    pc \in {"propagating", "verifying"} =>
        \A m \in MoleculesWithOutliers : m \ outliers # {}

\* a pass has relocated the outliers of a ring of three particles, all of
\* whose bonds were bad, around the one particle left as anchor
C21_Witness ==
    /\ pc = "verifying"
    /\ n = 3 /\ Len(bonds) = 3
    /\ Len(maybe_outliers) = 3
    /\ \E m \in MoleculesWithOutliers : Cardinality(m \ outliers) = 1
    /\ pos # passPos

\* the bad bond the classification loop is at has two endpoints that pass
\* the exclusion test at the same distance from the centre
AmbiguousNow ==
    /\ pc = "classifying"
    /\ BothPass(pos, maybe_outliers[bond_i])
    /\ Equidistant(pos, maybe_outliers[bond_i])

RaisedAmbiguity == pc = Idle /\ op = "unwrap" /\ result = "RuntimeError"

\* the steps of a pass: the classification reads and never writes the
\* positions; at an ambiguous bond it ends the call with the error and
\* the positions as they are; a position changes, inside a call, only
\* once every bad bond has been classified and the flood fill is over
PassOrderStep ==
    /\ pc = "classifying" => pos' = pos
    /\ AmbiguousNow =>
          (pc' = Idle /\ result' = "RuntimeError" /\ pos' = pos)
    /\ (pc \notin {"new", Idle} /\ pos' # pos) =>
          /\ pc = "propagating"
          /\ starts = {}
          /\ bond_i > Len(maybe_outliers)

\* while a pass classifies and floods, and when it has raised the
\* ambiguity error, the positions are those the pass began with
PassOrderInv ==
    (pc \in {"classifying", "propagating"} \/ RaisedAmbiguity) => pos = passPos

\* C22: in a pass all bad bonds are classified before any particle is
\* relocated, so a pass that raises the ambiguity error has moved no
\* particle: the positions at the error are those at the start of the
\* pass (with the moves of earlier passes of the call left in place).
C22_ClassifyBeforeRelocate == [][PassOrderStep]_vars /\ []PassOrderInv

\* the error raised in a retry pass: the particles are where the pass
\* found them, and not where they were when the call was made
C22_Witness ==
    /\ RaisedAmbiguity
    /\ passes >= 2
    /\ pos = passPos
    /\ pos # pos0

====
